---- MODULE Spec2Model ----
(***************************************************************************)
(* Model of pcunix_uptimes_viz.py: the command line, the CSV loader, the   *)
(* node x scan matrix (pandas pivot_table + reindex), the latest-scan      *)
(* analysis with its hardware groups, and the node-range formatter.        *)
(*                                                                         *)
(* Text is modelled as a sequence of one-character strings, so that        *)
(* formatting, joining and parsing are computed and not assumed.           *)
(* A missing CSV field (pandas NaN) is the value NaN for numeric columns   *)
(* and NoText for the CPU name.                                            *)
(***************************************************************************)
EXTENDS Integers, Sequences, FiniteSets, TLC

VARIABLES
    \* ---- one run of plot_uptime_heatmap ----
    entry,        \* "cli": started from the command line; "direct": analyze_latest_scan called directly
    argv,         \* [csv_files: Seq(path), format: text of --format or NoFlag]
    disk,         \* the files named on the command line: path -> file
    pc,           \* position of the run
    exit_status,  \* "running", "returned", "usage_error", "exception"
    args_format,  \* args.format after parse_arguments
    all_data,     \* [isNone, val]: first value returned by load_and_validate_csvs
    file_labels,  \* [isNone, val]: second value returned by load_and_validate_csvs
    reads,        \* the paths handed to pd.read_csv, in order
    console,      \* the kinds of line printed, in order
    pivot_table,  \* [built, index, columns, values]
    latest_data,  \* all_data[-1]
    saved,        \* plt.savefig has run
    report,       \* what analyze_latest_scan printed
    \* ---- one call of format_node_ranges ----
    rpc,          \* "idle", "input", "formatted", "parsed"
    node_ids,     \* the argument of format_node_ranges
    range_str,    \* its result
    parsed_back,  \* the set of integers the result denotes
    range_again   \* the result of formatting parsed_back

runVars == <<entry, argv, disk, pc, exit_status, args_format, all_data, file_labels,
             reads, console, pivot_table, latest_data, saved, report>>
rangeVars == <<rpc, node_ids, range_str, parsed_back, range_again>>
vars == <<runVars, rangeVars>>

(***************************************************************************)
(* Bounds of the model.                                                    *)
(***************************************************************************)
MaxIds == 4        \* length of the list given to format_node_ranges
MaxNodeId == 10    \* largest node ID given to format_node_ranges
MaxFiles == 2      \* command-line paths in the loader runs
MaxScans == 2      \* command-line paths in the matrix runs
MaxRows == 2       \* CSV rows over all files in the matrix runs
MaxNode == 2       \* largest node ID in the matrix runs

(***************************************************************************)
(* Generic helpers.                                                        *)
(***************************************************************************)
Range(s) == {s[i] : i \in DOMAIN s}

SeqsUpTo(S, n) == UNION {[1..k -> S] : k \in 0..n}

Last(s) == s[Len(s)]

SetMin(S) == CHOOSE a \in S : \A b \in S : a <= b

RECURSIVE SortedSeqOfSet(_)
SortedSeqOfSet(S) ==
    IF S = {} THEN <<>>
    ELSE LET m == SetMin(S) IN <<m>> \o SortedSeqOfSet(S \ {m})

RECURSIVE Join(_, _)
\* sep.join(parts)
Join(parts, sep) ==
    IF parts = <<>> THEN <<>>
    ELSE IF Len(parts) = 1 THEN parts[1]
    ELSE parts[1] \o sep \o Join(Tail(parts), sep)

DigitChars == <<"0", "1", "2", "3", "4", "5", "6", "7", "8", "9">>

RECURSIVE Str(_)
\* str(n) for an integer n
Str(n) ==
    IF n < 0 THEN <<"-">> \o Str(0 - n)
    ELSE IF n < 10 THEN <<DigitChars[n + 1]>>
    ELSE Str(n \div 10) \o <<DigitChars[(n % 10) + 1]>>

(***************************************************************************)
(* format_node_ranges                                                      *)
(***************************************************************************)
\* faulty variants of the gap test
IsGapNoMerge(curr, prev) == curr > prev
IsGapWide(curr, prev) == curr > prev + 2

\* line 126: curr > prev + 1
IsGap(curr, prev) == curr > prev + 1

\* lines 127-130: one finished run as text
RangeToken(start, prev) ==
    IF start = prev THEN Str(start)
    ELSE Str(start) \o <<"-">> \o Str(prev)

RECURSIVE FormatLoop(_, _, _, _, _)
\* lines 125-133; position Len(ids)+1 is the trailing None
FormatLoop(ids, i, start, prev, ranges) ==
    IF i > Len(ids) + 1 THEN ranges
    ELSE LET isNone == i = Len(ids) + 1
             curr == IF isNone THEN prev ELSE ids[i]
             close == isNone \/ IsGap(curr, prev)
             ranges2 == IF close THEN Append(ranges, RangeToken(start, prev)) ELSE ranges
             start2 == IF close /\ ~isNone THEN curr ELSE start
             prev2 == IF isNone THEN prev ELSE curr
         IN FormatLoop(ids, i + 1, start2, prev2, ranges2)

format_node_ranges(ids) ==
    IF ids = <<>> THEN <<>>
    ELSE LET sorted == SortSeq(ids, <)
         IN Join(FormatLoop(sorted, 2, sorted[1], sorted[1], <<>>), <<",", " ">>)

(***************************************************************************)
(* Reading a range string back: the set of integers it denotes.            *)
(***************************************************************************)
DigitValue(c) == CHOOSE d \in 0..9 : DigitChars[d + 1] = c

RECURSIVE ParseInt(_)
ParseInt(chars) ==
    IF chars = <<>> THEN 0
    ELSE 10 * ParseInt(SubSeq(chars, 1, Len(chars) - 1)) + DigitValue(Last(chars))

RECURSIVE SplitAt(_, _)
\* s.split(c) for a one-character separator
SplitAt(s, c) ==
    IF \A i \in DOMAIN s : s[i] # c THEN <<s>>
    ELSE LET k == CHOOSE i \in DOMAIN s : s[i] = c /\ \A j \in 1..(i - 1) : s[j] # c
         IN <<SubSeq(s, 1, k - 1)>> \o SplitAt(SubSeq(s, k + 1, Len(s)), c)

Strip(s) == SelectSeq(s, LAMBDA c : c # " ")

ParseToken(tok) ==
    LET ends == SplitAt(Strip(tok), "-")
    IN IF Len(ends) = 1 THEN {ParseInt(ends[1])}
       ELSE ParseInt(ends[1]) .. ParseInt(ends[2])

ParseRanges(s) ==
    IF s = <<>> THEN {}
    ELSE LET toks == SplitAt(s, ",")
         IN UNION {ParseToken(toks[i]) : i \in DOMAIN toks}

(***************************************************************************)
(* Paths: os.path.basename and os.path.splitext on character sequences.    *)
(***************************************************************************)
LastIndexOf(s, c) ==
    IF \E i \in DOMAIN s : s[i] = c
    THEN CHOOSE i \in DOMAIN s : s[i] = c /\ \A j \in (i + 1)..Len(s) : s[j] # c
    ELSE 0

\* os.path.basename(p): what follows the last "/"
basename(p) == SubSeq(p, LastIndexOf(p, "/") + 1, Len(p))

\* os.path.splitext(p)[0]: cut at the last "." that follows the last "/", unless only
\* dots stand between that "/" and it (leading dots of the name are not an extension)
splitext_root(p) ==
    LET sepIndex == LastIndexOf(p, "/")
        dotIndex == LastIndexOf(p, ".")
    IN IF dotIndex > sepIndex /\ \E k \in (sepIndex + 1)..(dotIndex - 1) : p[k] # "."
       THEN SubSeq(p, 1, dotIndex - 1)
       ELSE p

\* faulty variant: the directory is kept in the label
ScanLabelKeepsDir(file_path) == splitext_root(file_path)

\* line 40
ScanLabel(file_path) == splitext_root(basename(file_path))

(***************************************************************************)
(* Tables.  A file is [exists, kind, columns, rows]; a row is a record of  *)
(* the six required columns; a loaded table carries Scan_Label as well.    *)
(***************************************************************************)
NaN == -1          \* a missing numeric field as pd.read_csv yields it
NoText == ""       \* a missing CPU_Name field

RequiredColumns ==
    {"Node_ID", "Reachable", "CPU_Name", "Cores_Per_Socket", "Total_CPUs", "Total_RAM_GiB"}

Row(n, r, hw) ==
    [Node_ID |-> n, Reachable |-> r, CPU_Name |-> hw[1], Cores_Per_Socket |-> hw[2],
     Total_CPUs |-> hw[3], Total_RAM_GiB |-> hw[4]]

TableFile(rows) ==
    [exists |-> TRUE, kind |-> "table", columns |-> RequiredColumns, rows |-> rows]

\* faulty variant: a column-deficient file is loaded all the same
HasRequiredColumnsAlways(df) == TRUE

\* line 37
HasRequiredColumns(df) == \A col \in RequiredColumns : col \in df.columns

\* lines 41: df['Scan_Label'] = file_name_without_ext
Tagged(df, label) ==
    [columns |-> df.columns \cup {"Scan_Label"},
     rows |-> [i \in DOMAIN df.rows |-> [Scan_Label |-> label] @@ df.rows[i]]]

\* lines 34-49: one pass of the loop body over file_path; acc is
\* [all_data, file_labels, reads, console]
LoadOne(acc, file_path, files) ==
    LET f == files[file_path]
        seen == [acc EXCEPT !.reads = Append(@, file_path)]
    IN IF ~f.exists THEN [seen EXCEPT !.console = Append(@, "file_not_found")]
       ELSE IF f.kind = "empty" THEN [seen EXCEPT !.console = Append(@, "empty_file")]
       ELSE IF f.kind # "table" THEN [seen EXCEPT !.console = Append(@, "read_error")]
       ELSE IF ~HasRequiredColumns(f) THEN [seen EXCEPT !.console = Append(@, "missing_columns")]
       ELSE [seen EXCEPT !.all_data = Append(@, Tagged(f, ScanLabel(file_path))),
                         !.file_labels = Append(@, ScanLabel(file_path))]

RECURSIVE LoadLoop(_, _, _)
\* line 33: for file_path in csv_files
LoadLoop(acc, csv_files, files) ==
    IF csv_files = <<>> THEN acc
    ELSE LoadLoop(LoadOne(acc, Head(csv_files), files), Tail(csv_files), files)

\* faulty variant: the "no valid data" check is gone and the empty lists are returned
LoadResultNoCheck(acc) ==
    [all_data |-> [isNone |-> FALSE, val |-> acc.all_data],
     file_labels |-> [isNone |-> FALSE, val |-> acc.file_labels],
     reads |-> acc.reads, console |-> acc.console]

\* lines 51-55
LoadResult(acc) ==
    IF acc.all_data = <<>>
    THEN [all_data |-> [isNone |-> TRUE, val |-> <<>>],
          file_labels |-> [isNone |-> TRUE, val |-> <<>>],
          reads |-> acc.reads, console |-> Append(acc.console, "no_valid_data")]
    ELSE [all_data |-> [isNone |-> FALSE, val |-> acc.all_data],
          file_labels |-> [isNone |-> FALSE, val |-> acc.file_labels],
          reads |-> acc.reads, console |-> acc.console]

\* lines 24-55
load_and_validate_csvs(csv_files, files) ==
    IF csv_files = <<>>
    THEN [all_data |-> [isNone |-> TRUE, val |-> <<>>],
          file_labels |-> [isNone |-> TRUE, val |-> <<>>],
          reads |-> <<>>, console |-> <<"no_csv_files">>]
    ELSE LoadResult(LoadLoop([all_data |-> <<>>, file_labels |-> <<>>, reads |-> <<>>,
                              console |-> <<>>], csv_files, files))

(***************************************************************************)
(* process_data: concat, pivot_table(aggfunc='first'), reindex, sort_index *)
(***************************************************************************)
RECURSIVE Concat(_)
\* line 59: the rows of all tables, in file order and then row order
Concat(tables) ==
    IF tables = <<>> THEN <<>>
    ELSE Head(tables).rows \o Concat(Tail(tables))

GroupRows(rows, n, l) == SelectSeq(rows, LAMBDA r : r.Node_ID = n /\ r.Scan_Label = l)

\* faulty variant: aggfunc='last'
AggLast(group) ==
    LET present == SelectSeq(group, LAMBDA r : r.Reachable # NaN)
    IN IF present = <<>> THEN NaN ELSE Last(present).Reachable

\* line 64: aggfunc='first' is GroupBy.first, the first non-null entry of the group
AggFirst(group) ==
    LET present == SelectSeq(group, LAMBDA r : r.Reachable # NaN)
    IN IF present = <<>> THEN NaN ELSE Head(present).Reachable

\* lines 60-65: the (Node_ID, Scan_Label) groups that survive pivot_table's dropna
PivotKeys(rows) ==
    {k \in {<<rows[i].Node_ID, rows[i].Scan_Label>> : i \in DOMAIN rows} :
        AggFirst(GroupRows(rows, k[1], k[2])) # NaN}

\* order of texts: by character, then by length
Alphabet == <<".", "/", "A", "B", "a", "b", "c", "d", "e", "s">>
CharRank(c) == CHOOSE i \in DOMAIN Alphabet : Alphabet[i] = c

RECURSIVE TextLess(_, _)
TextLess(a, b) ==
    IF b = <<>> THEN FALSE
    ELSE IF a = <<>> THEN TRUE
    ELSE IF Head(a) # Head(b) THEN CharRank(Head(a)) < CharRank(Head(b))
    ELSE TextLess(Tail(a), Tail(b))

RECURSIVE SortedTexts(_)
SortedTexts(S) ==
    IF S = {} THEN <<>>
    ELSE LET m == CHOOSE a \in S : \A b \in S \ {a} : TextLess(a, b)
         IN <<m>> \o SortedTexts(S \ {m})

\* faulty variant: no reindex, the columns stay as pivot_table leaves them (sorted labels)
MatrixColumnsSorted(labels, pivot_labels) == SortedTexts(pivot_labels)

\* line 66: reindex(columns=file_labels)
MatrixColumns(labels, pivot_labels) == labels

\* lines 60-66: the cell of node n under label l.  A label pivot_table produced keeps
\* its cells, NaN where the node has no surviving group; fill_value=0 fills only the
\* columns reindex adds.
Cell(rows, keys, n, l) ==
    IF \E k \in keys : k[2] = l
    THEN IF <<n, l>> \in keys THEN AggFirst(GroupRows(rows, n, l)) ELSE NaN
    ELSE 0

\* lines 57-68
process_data(tables, labels) ==
    LET rows == Concat(tables)
        keys == PivotKeys(rows)
        index == SortedSeqOfSet({k[1] : k \in keys})
        columns == MatrixColumns(labels, {k[2] : k \in keys})
    IN [built |-> TRUE, index |-> index, columns |-> columns,
        values |-> [i \in DOMAIN index |->
                       [j \in DOMAIN columns |-> Cell(rows, keys, index[i], columns[j])]]]

(***************************************************************************)
(* analyze_latest_scan                                                     *)
(***************************************************************************)
\* faulty variant: the first column is read
ScanColumnFirst(pt) == [i \in DOMAIN pt.index |-> pt.values[i][1]]

\* line 139: pivot_table.iloc[:, -1]
ScanColumn(pt) == [i \in DOMAIN pt.index |-> pt.values[i][Len(pt.columns)]]

\* faulty variant: only "plain" selects the plain table
TableStylePlainOnly(output_format) == IF output_format = "plain" THEN "plain" ELSE "md"

\* line 156 and line 170
TableStyle(output_format) == IF output_format \in {"md", "markdown"} THEN "md" ELSE "plain"

HardwareKey(r) == <<r.CPU_Name, r.Cores_Per_Socket, r.Total_CPUs, r.Total_RAM_GiB>>

\* groupby drops a row that has a missing value in a key column
KeyPresent(r) ==
    /\ r.CPU_Name # NoText
    /\ r.Cores_Per_Socket # NaN
    /\ r.Total_CPUs # NaN
    /\ r.Total_RAM_GiB # NaN

\* lines 147-152 and the rows printed at 162-169 / 176-183
GroupedNodes(latest, up_nodes) ==
    LET up_rows == SelectSeq(latest.rows, LAMBDA r : r.Node_ID \in Range(up_nodes))
        kept == SelectSeq(up_rows, KeyPresent)
        members(k) == LET g == SelectSeq(kept, LAMBDA r : HardwareKey(r) = k)
                      IN [i \in DOMAIN g |-> g[i].Node_ID]
    IN {[key |-> k, Node_ID |-> members(k), num_nodes |-> Len(members(k)),
         node_ids |-> format_node_ranges(members(k))] :
            k \in {HardwareKey(kept[i]) : i \in DOMAIN kept}}

\* line 141: the percentage as printed with two decimals, in hundredths of a percent
\* (NaN for a matrix without rows; no tie at the third decimal for under 8 rows)
PercentHundredths(up_count, total) ==
    IF total = 0 THEN NaN ELSE (2 * 10000 * up_count + total) \div (2 * total)

\* lines 137-183
analyze_latest_scan(pt, latest, output_format) ==
    LET last_scan == ScanColumn(pt)
        up_idx == {i \in DOMAIN pt.index : last_scan[i] = 1}
        up_nodes == SortedSeqOfSet({pt.index[i] : i \in up_idx})
    IN [printed |-> TRUE,
        total |-> Len(pt.index),
        up_count |-> Cardinality(up_idx),
        pct |-> PercentHundredths(Cardinality(up_idx), Len(pt.index)),
        up_nodes |-> up_nodes,
        style |-> IF up_nodes # <<>> THEN TableStyle(output_format) ELSE "none",
        groups |-> IF up_nodes # <<>> THEN GroupedNodes(latest, up_nodes) ELSE {}]

(***************************************************************************)
(* parse_arguments and plot_uptime_heatmap                                 *)
(***************************************************************************)
NoFlag == "<absent>"                       \* --format not given
FormatChoices == {"plain", "md", "markdown"}   \* line 18

\* faulty variant: any --format value is let through
FormatAcceptedAny(fmt) == TRUE

\* line 18: argparse rejects a value outside choices
FormatAccepted(fmt) == fmt = NoFlag \/ fmt \in FormatChoices

\* lines 8-22; argparse ends the process with status 2 on a usage error
ParseArguments ==
    /\ pc = "start"
    /\ IF argv.csv_files # <<>> /\ FormatAccepted(argv.format)
       THEN /\ pc' = "parsed"
            /\ args_format' = IF argv.format = NoFlag THEN "plain" ELSE argv.format
            /\ UNCHANGED <<exit_status, console>>
       ELSE /\ pc' = "exit"
            /\ exit_status' = "usage_error"
            /\ console' = Append(console, "usage_error")
            /\ UNCHANGED args_format
    /\ UNCHANGED <<entry, argv, disk, all_data, file_labels, reads, pivot_table,
                   latest_data, saved, report, rangeVars>>

\* line 193
LoadAndValidateCsvs ==
    /\ pc = "parsed"
    /\ LET got == load_and_validate_csvs(argv.csv_files, disk)
       IN /\ all_data' = got.all_data
          /\ file_labels' = got.file_labels
          /\ reads' = reads \o got.reads
          /\ console' = console \o got.console
    /\ pc' = "loaded"
    /\ UNCHANGED <<entry, argv, disk, exit_status, args_format, pivot_table, latest_data,
                   saved, report, rangeVars>>

\* lines 194-195
AbortNoData ==
    /\ pc = "loaded"
    /\ all_data.isNone \/ file_labels.isNone
    /\ pc' = "exit"
    /\ exit_status' = "returned"
    /\ UNCHANGED <<entry, argv, disk, args_format, all_data, file_labels, reads, console,
                   pivot_table, latest_data, saved, report, rangeVars>>

\* lines 197-198; pd.concat raises on an empty list of tables
ProcessData ==
    /\ pc = "loaded"
    /\ ~(all_data.isNone \/ file_labels.isNone)
    /\ IF all_data.val = <<>>
       THEN /\ pc' = "exit"
            /\ exit_status' = "exception"
            /\ UNCHANGED <<pivot_table, latest_data>>
       ELSE /\ pivot_table' = process_data(all_data.val, file_labels.val)
            /\ latest_data' = Last(all_data.val)
            /\ pc' = "processed"
            /\ UNCHANGED exit_status
    /\ UNCHANGED <<entry, argv, disk, args_format, all_data, file_labels, reads, console,
                   saved, report, rangeVars>>

\* lines 199-201: create_heatmap, plt.savefig, plt.show
SaveHeatmap ==
    /\ pc = "processed"
    /\ saved' = TRUE
    /\ pc' = "plotted"
    /\ UNCHANGED <<entry, argv, disk, exit_status, args_format, all_data, file_labels,
                   reads, console, pivot_table, latest_data, report, rangeVars>>

\* line 199/111: whether matplotlib draws a matrix without rows is not fixed by the
\* script; the run may end there with an exception
HeatmapFails ==
    /\ pc = "processed"
    /\ pivot_table.index = <<>>
    /\ pc' = "exit"
    /\ exit_status' = "exception"
    /\ UNCHANGED <<entry, argv, disk, args_format, all_data, file_labels, reads, console,
                   pivot_table, latest_data, saved, report, rangeVars>>

\* line 202
AnalyzeLatestScan ==
    /\ pc = "plotted"
    /\ report' = analyze_latest_scan(pivot_table, latest_data, args_format)
    /\ console' = console \o <<"percentage", "up_nodes">>
                    \o (IF report'.up_nodes # <<>> THEN <<"grouped_table">> ELSE <<>>)
    /\ pc' = "exit"
    /\ exit_status' = "returned"
    /\ UNCHANGED <<entry, argv, disk, args_format, all_data, file_labels, reads,
                   pivot_table, latest_data, saved, rangeVars>>

Next ==
    \/ ParseArguments
    \/ LoadAndValidateCsvs
    \/ AbortNoData
    \/ ProcessData
    \/ SaveHeatmap
    \/ HeatmapFails
    \/ AnalyzeLatestScan

(***************************************************************************)
(* A call of format_node_ranges on any list, then the round trip.          *)
(***************************************************************************)
RunIdle ==
    /\ entry = "cli"
    /\ argv = [csv_files |-> <<>>, format |-> <<>>]
    /\ disk = <<>>
    /\ pc = "idle"
    /\ exit_status = "running"
    /\ args_format = <<>>
    /\ all_data = [isNone |-> TRUE, val |-> <<>>]
    /\ file_labels = [isNone |-> TRUE, val |-> <<>>]
    /\ reads = <<>>
    /\ console = <<>>
    /\ pivot_table = [built |-> FALSE, index |-> <<>>, columns |-> <<>>, values |-> <<>>]
    /\ latest_data = <<>>
    /\ saved = FALSE
    /\ report = [printed |-> FALSE, total |-> 0, up_count |-> 0, pct |-> 0, up_nodes |-> <<>>,
                 style |-> "none", groups |-> {}]

RangeIdle ==
    /\ rpc = "idle"
    /\ node_ids = <<>>
    /\ range_str = <<>>
    /\ parsed_back = {}
    /\ range_again = <<>>

InitRange ==
    /\ RunIdle
    /\ rpc = "input"
    /\ node_ids \in SeqsUpTo(0..MaxNodeId, MaxIds)
    /\ range_str = <<>>
    /\ parsed_back = {}
    /\ range_again = <<>>

FormatNodeRanges ==
    /\ rpc = "input"
    /\ range_str' = format_node_ranges(node_ids)
    /\ rpc' = "formatted"
    /\ UNCHANGED <<node_ids, parsed_back, range_again, runVars>>

ParseBack ==
    /\ rpc = "formatted"
    /\ parsed_back' = ParseRanges(range_str)
    /\ range_again' = format_node_ranges(SortedSeqOfSet(ParseRanges(range_str)))
    /\ rpc' = "parsed"
    /\ UNCHANGED <<node_ids, range_str, runVars>>

NextRange == FormatNodeRanges \/ ParseBack

SpecRange == InitRange /\ [][NextRange]_vars

(***************************************************************************)
(* Runs of plot_uptime_heatmap.  The three specifications share Next and   *)
(* differ in the command lines and files they start from.                  *)
(***************************************************************************)
HwA == <<"cpuA", 4, 8, 16>>
HwB == <<"cpuB", 4, 8, 16>>
HwNoRam == <<"cpuA", 4, 8, NaN>>
HwNoName == <<NoText, 4, 8, 16>>

RunStart(files, fmt, d) ==
    /\ entry = "cli"
    /\ argv = [csv_files |-> files, format |-> fmt]
    /\ disk = d
    /\ pc = "start"
    /\ exit_status = "running"
    /\ args_format = ""
    /\ all_data = [isNone |-> TRUE, val |-> <<>>]
    /\ file_labels = [isNone |-> TRUE, val |-> <<>>]
    /\ reads = <<>>
    /\ console = <<>>
    /\ pivot_table = [built |-> FALSE, index |-> <<>>, columns |-> <<>>, values |-> <<>>]
    /\ latest_data = [columns |-> {}, rows |-> <<>>]
    /\ saved = FALSE
    /\ report = [printed |-> FALSE, total |-> 0, up_count |-> 0, pct |-> 0, up_nodes |-> <<>>,
                 style |-> "none", groups |-> {}]
    /\ RangeIdle

MissingFile == [exists |-> FALSE, kind |-> "none", columns |-> {}, rows |-> <<>>]
EmptyFile == [exists |-> TRUE, kind |-> "empty", columns |-> {}, rows |-> <<>>]
GarbageFile == [exists |-> TRUE, kind |-> "garbage", columns |-> {}, rows |-> <<>>]
NoRamColumnFile ==
    [exists |-> TRUE, kind |-> "table", columns |-> RequiredColumns \ {"Total_RAM_GiB"},
     rows |-> <<>>]
TwoColumnFile ==
    [exists |-> TRUE, kind |-> "table", columns |-> {"Node_ID", "Reachable"}, rows |-> <<>>]
ExtraColumnFile ==
    [exists |-> TRUE, kind |-> "table", columns |-> RequiredColumns \cup {"Rack"},
     rows |-> <<Row(2, 0, HwB)>>]

\* ---- loader runs: any of these paths, any of these files ----
PathSamples ==
    { <<"a">>,
      <<"a", ".", "c">>,
      <<"d", "/", "b", ".", "c">>,
      <<"d", ".", "e", "/", "a">>,
      <<".", "a">>,
      <<"a", ".", "b", ".", "c">> }

FileSamples ==
    { MissingFile, EmptyFile, GarbageFile, NoRamColumnFile, TwoColumnFile,
      TableFile(<<>>), TableFile(<<Row(1, 1, HwA)>>), ExtraColumnFile }

InitLoad ==
    \E files \in SeqsUpTo(PathSamples, MaxFiles) :
    \E d \in [Range(files) -> FileSamples] :
        RunStart(files, NoFlag, d)

SpecLoad == InitLoad /\ [][Next]_vars

\* ---- command-line runs and direct calls of analyze_latest_scan ----
Formats == {NoFlag, "plain", "md", "markdown", "html", "MD"}

CliPaths == << <<"a", ".", "c">>, <<"b", ".", "c">> >>
CliFileLists == { <<>>, <<CliPaths[1]>>, <<CliPaths[1], CliPaths[2]>>, <<CliPaths[2], CliPaths[1]>> }
CliFileSamples ==
    { MissingFile, TableFile(<<>>), TableFile(<<Row(1, 1, HwA), Row(2, 0, HwA)>>),
      TableFile(<<Row(1, 0, HwA)>>) }

DirectTables ==
    { TableFile(<<Row(1, 1, HwA), Row(2, 1, HwB)>>), TableFile(<<Row(1, 1, HwA), Row(2, 0, HwA)>>),
      TableFile(<<Row(1, 0, HwA)>>) }

DirectCall(table, fmt) ==
    LET df == Tagged(table, <<"a">>)
    IN /\ entry = "direct"
       /\ argv = [csv_files |-> <<>>, format |-> NoFlag]
       /\ disk = <<>>
       /\ pc = "plotted"
       /\ exit_status = "running"
       /\ args_format = fmt
       /\ all_data = [isNone |-> TRUE, val |-> <<>>]
       /\ file_labels = [isNone |-> TRUE, val |-> <<>>]
       /\ reads = <<>>
       /\ console = <<>>
       /\ pivot_table = process_data(<<df>>, << <<"a">> >>)
       /\ latest_data = df
       /\ saved = FALSE
       /\ report = [printed |-> FALSE, total |-> 0, up_count |-> 0, pct |-> 0,
                    up_nodes |-> <<>>, style |-> "none", groups |-> {}]
       /\ RangeIdle

Init ==
    \/ \E files \in CliFileLists :
       \E d \in [Range(files) -> CliFileSamples] :
       \E fmt \in Formats :
           RunStart(files, fmt, d)
    \/ \E table \in DirectTables :
       \E fmt \in Formats \ {NoFlag} :
           DirectCall(table, fmt)

Spec == Init /\ [][Next]_vars

\* ---- matrix runs: every split of every short list of rows over the files ----
ScanPaths == << <<"b", ".", "c">>, <<"a", ".", "c">>, <<"d", "/", "a", ".", "c">> >>

Flags == {0, 1, NaN}

MatrixRows == {Row(n, r, HwA) : n \in 1..MaxNode, r \in Flags}
GroupRowsKinds == {Row(n, r, hw) : n \in 1..MaxNode, r \in Flags, hw \in {HwA, HwB, HwNoRam}}

\* the scanA / scanB scenario
ScenarioPaths == << <<"s", "A", ".", "c">>, <<"s", "B", ".", "c">> >>
ScenarioDisk ==
    (ScenarioPaths[1] :> TableFile(<<Row(1, 1, HwA), Row(2, 0, HwA), Row(3, 1, HwA)>>))
    @@ (ScenarioPaths[2] :> TableFile(<<Row(1, 0, HwA), Row(3, 1, HwA)>>))

InitTables(kinds) ==
    \/ \E files \in SeqsUpTo(Range(ScanPaths), MaxScans) \ {<<>>} :
       \E rows \in SeqsUpTo(kinds, MaxRows) :
       \E c1 \in 0..Len(rows) :
       \E c2 \in c1..Len(rows) :
           LET part == (ScanPaths[1] :> SubSeq(rows, 1, c1))
                       @@ (ScanPaths[2] :> SubSeq(rows, c1 + 1, c2))
                       @@ (ScanPaths[3] :> SubSeq(rows, c2 + 1, Len(rows)))
           IN /\ \A p \in Range(ScanPaths) \ Range(files) : part[p] = <<>>
              /\ RunStart(files, NoFlag, [p \in Range(files) |-> TableFile(part[p])])
    \/ RunStart(ScenarioPaths, NoFlag, ScenarioDisk)
    \/ RunStart(<<ScanPaths[1]>>, NoFlag, (ScanPaths[1] :> MissingFile))

InitMatrix == InitTables(MatrixRows)
SpecMatrix == InitMatrix /\ [][Next]_vars

InitGroups == InitTables(GroupRowsKinds)
SpecGroups == InitGroups /\ [][Next]_vars

(***************************************************************************)
(* Claims about the loader.                                                *)
(***************************************************************************)
Loaded == entry = "cli" /\ pc \notin {"idle", "start", "parsed"} /\ exit_status # "usage_error"

\* a file that can be read as a table and has every required column
Usable(p) ==
    /\ disk[p].exists
    /\ disk[p].kind = "table"
    /\ RequiredColumns \subseteq disk[p].columns

UsablePaths == SelectSeq(argv.csv_files, Usable)

\* label is path without its directory and without its extension
IsBaseName(label, path) ==
    \E i \in 0..Len(path) :
    \E j \in i..Len(path) :
        LET ext == SubSeq(path, j + 1, Len(path))
            hasStem == \E k \in DOMAIN label : label[k] # "."
        IN /\ label = SubSeq(path, i + 1, j)
           /\ i = 0 \/ path[i] = "/"
           /\ \A k \in (i + 1)..Len(path) : path[k] # "/"
           /\ \/ ext # <<>> /\ ext[1] = "." /\ hasStem
                 /\ \A k \in 2..Len(ext) : ext[k] # "."
              \/ ext = <<>> /\ ~(\E k \in 2..Len(label) :
                                    label[k] = "." /\ \E m \in 1..(k - 1) : label[m] # ".")

ReturnsUsableFiles ==
    LET V == UsablePaths
    IN /\ ~all_data.isNone
       /\ ~file_labels.isNone
       /\ Len(all_data.val) = Len(V)
       /\ Len(file_labels.val) = Len(V)
       /\ \A i \in DOMAIN V :
            /\ IsBaseName(file_labels.val[i], V[i])
            /\ Len(all_data.val[i].rows) = Len(disk[V[i]].rows)
            /\ \A k \in DOMAIN all_data.val[i].rows :
                 /\ all_data.val[i].rows[k].Scan_Label = file_labels.val[i]
                 /\ all_data.val[i].rows[k].Node_ID = disk[V[i]].rows[k].Node_ID
                 /\ all_data.val[i].rows[k].Reachable = disk[V[i]].rows[k].Reachable

\* C2 as stated: for every list of paths the loader returns the usable files, in input
\* order, with a label list of the same length; each path is read exactly once.
C2_AsStated == Loaded => (ReturnsUsableFiles /\ reads = argv.csv_files)

\* C2 amended: when at least one file is usable the loader returns the usable files in
\* input order with their base-name labels; when none is, it returns (None, None);
\* in both cases each path is read exactly once, in order, whatever failed before it.
C2_UsableFilesOrNone ==
    Loaded =>
        /\ reads = argv.csv_files
        /\ IF UsablePaths = <<>>
           THEN all_data.isNone /\ file_labels.isNone
           ELSE ReturnsUsableFiles

C2_Witness ==
    /\ Loaded
    /\ argv.csv_files = << <<"a", ".", "b", ".", "c">>, <<"d", "/", "b", ".", "c">> >>
    /\ disk[argv.csv_files[1]] = NoRamColumnFile
    /\ reads = argv.csv_files
    /\ file_labels.val = << <<"b">> >>
    /\ Len(all_data.val) = 1

\* C3: with no usable file the run reports "no valid data" and ends without a matrix,
\* an image or a report; an image or a report exists only after the loader returned
\* at least one table.
C3_NoDataNoOutput ==
    entry = "cli" =>
        /\ (Loaded /\ UsablePaths = <<>>) =>
              /\ pc \in {"loaded", "exit"}
              /\ \E i \in DOMAIN console : console[i] = "no_valid_data"
              /\ ~pivot_table.built
              /\ ~saved
              /\ ~report.printed
              /\ pc = "exit" => exit_status = "returned"
        /\ (saved \/ report.printed \/ pivot_table.built) =>
              /\ ~all_data.isNone
              /\ Len(all_data.val) >= 1
              /\ UsablePaths # <<>>

C3_Witness ==
    /\ entry = "cli"
    /\ Len(argv.csv_files) = 2
    /\ UsablePaths = <<>>
    /\ pc = "exit"
    /\ exit_status = "returned"
    /\ console = <<"file_not_found", "file_not_found", "no_valid_data">>
    /\ ~saved

(***************************************************************************)
(* Claims about the format selector.                                       *)
(***************************************************************************)
\* C9 as stated: an unrecognized --format value does not stop the run.
C9_AsStated ==
    (entry = "cli" /\ argv.csv_files # <<>> /\ argv.format \notin FormatChoices \cup {NoFlag})
        => exit_status # "usage_error"

\* C9 amended: an unrecognized value given to analyze_latest_scan directly is rendered
\* as the plain table; given on the command line it is rejected by parse_arguments,
\* and the run ends there with a usage error before any file is read.
C9_PlainOrRejected ==
    /\ (entry = "direct" /\ report.printed /\ report.up_nodes # <<>>
            /\ args_format \notin {"md", "markdown"})
          => report.style = "plain"
    /\ (entry = "cli" /\ pc # "start" /\ argv.format \notin FormatChoices \cup {NoFlag})
          => /\ pc = "exit"
             /\ exit_status = "usage_error"
             /\ reads = <<>>
             /\ ~report.printed

C9_Witness ==
    /\ entry = "direct"
    /\ args_format = "html"
    /\ report.printed
    /\ Len(report.up_nodes) = 2
    /\ report.style = "plain"

(***************************************************************************)
(* Claims about the matrix.                                                *)
(***************************************************************************)
LoadedRows == Concat(all_data.val)

IndexOf(n) == CHOOSE i \in DOMAIN pivot_table.index : pivot_table.index[i] = n

\* C1: one row per node ID seen in any table, every cell 0 or 1, 0 where the node has
\* no row in that scan.  Stated for tables whose reachability values are all 0 or 1.
C1_ZeroFilled ==
    (pivot_table.built /\ \A k \in DOMAIN LoadedRows : LoadedRows[k].Reachable \in {0, 1}) =>
        /\ Range(pivot_table.index) = {LoadedRows[k].Node_ID : k \in DOMAIN LoadedRows}
        /\ \A i \in DOMAIN pivot_table.index :
           \A j \in DOMAIN pivot_table.columns :
              /\ pivot_table.values[i][j] \in {0, 1}
              /\ (GroupRows(LoadedRows, pivot_table.index[i], pivot_table.columns[j]) = <<>>)
                    => pivot_table.values[i][j] = 0

\* C4: the matrix columns are the label list, in input order.
C4_ColumnsAreLabels ==
    pivot_table.built =>
        /\ pivot_table.columns = file_labels.val
        /\ Len(pivot_table.columns) = Len(UsablePaths)
        /\ \A j \in DOMAIN pivot_table.columns :
              /\ IsBaseName(pivot_table.columns[j], UsablePaths[j])
              /\ \A i \in DOMAIN pivot_table.index :
                    Len(pivot_table.values[i]) = Len(file_labels.val)

C4_Witness ==
    /\ pivot_table.built
    /\ pivot_table.columns = << <<"b">>, <<"a">> >>
    /\ file_labels.val = << <<"b">>, <<"a">> >>
    /\ pivot_table.index = <<2>>
    /\ pivot_table.values[1] = <<1, 0>>

\* the (node, label) pairs that have more than one row
Duplicated ==
    {k \in {<<LoadedRows[i].Node_ID, LoadedRows[i].Scan_Label>> : i \in DOMAIN LoadedRows} :
        Len(GroupRows(LoadedRows, k[1], k[2])) > 1}

CellsAre(n, l, v) ==
    /\ n \in Range(pivot_table.index)
    /\ \A j \in DOMAIN pivot_table.columns :
          pivot_table.columns[j] = l => pivot_table.values[IndexOf(n)][j] = v

\* C6 as stated: the cell of a duplicated (node, label) holds the value of its first row
\* (a node without a matrix row counts as holding the missing value).
C6_AsStated ==
    pivot_table.built =>
        \A k \in Duplicated :
            LET first == GroupRows(LoadedRows, k[1], k[2])[1].Reachable
            IN IF k[1] \in Range(pivot_table.index)
               THEN CellsAre(k[1], k[2], first)
               ELSE first = NaN

\* C6 amended: the cell of a duplicated (node, label) holds the value of the first of
\* its rows, in file order and then row order, whose reachability value is present;
\* later rows never change it.
C6_FirstPresentValue ==
    pivot_table.built =>
        \A k \in Duplicated :
            LET g == GroupRows(LoadedRows, k[1], k[2])
            IN \A m \in DOMAIN g :
                  (g[m].Reachable # NaN /\ \A q \in 1..(m - 1) : g[q].Reachable = NaN)
                      => CellsAre(k[1], k[2], g[m].Reachable)

C6_Witness ==
    /\ pivot_table.built
    /\ argv.csv_files = <<ScanPaths[2], ScanPaths[3]>>
    /\ disk[ScanPaths[2]].rows = <<Row(1, 0, HwA)>>
    /\ disk[ScanPaths[3]].rows = <<Row(1, 1, HwA)>>
    /\ pivot_table.index = <<1>>
    /\ pivot_table.values[1] = <<0, 0>>

(***************************************************************************)
(* Claims about the latest-scan analysis.                                  *)
(***************************************************************************)
LastColumnUp ==
    {i \in DOMAIN pivot_table.index : pivot_table.values[i][Len(pivot_table.columns)] = 1}

\* C7: the percentage is 100 * (rows with 1 in the last column) / (rows), within
\* [0,100], printed to two decimals; the up list is those rows' node IDs, ascending;
\* the scanA/scanB scenario gives 33.33 and [3].
C7_PercentageAndUpNodes ==
    (report.printed /\ Len(pivot_table.index) >= 1) =>
        LET total == Len(pivot_table.index)
            up == Cardinality(LastColumnUp)
            diff == report.pct * total - 10000 * up
        IN /\ 2 * diff <= total /\ 2 * (0 - diff) <= total
           /\ report.pct >= 0 /\ report.pct <= 10000
           /\ Range(report.up_nodes) = {pivot_table.index[i] : i \in LastColumnUp}
           /\ Len(report.up_nodes) = up
           /\ \A a, b \in DOMAIN report.up_nodes :
                 a < b => report.up_nodes[a] < report.up_nodes[b]
           /\ argv.csv_files = ScenarioPaths =>
                 /\ total = 3
                 /\ report.pct = 3333
                 /\ report.up_nodes = <<3>>

C7_Witness ==
    /\ report.printed
    /\ argv.csv_files = ScenarioPaths
    /\ pivot_table.index = <<1, 2, 3>>
    /\ report.pct = 3333
    /\ report.up_nodes = <<3>>

Occurrences(s, n) == Cardinality({i \in DOMAIN s : s[i] = n})

RECURSIVE SumNodes(_)
SumNodes(gs) ==
    IF gs = {} THEN 0
    ELSE LET g == CHOOSE x \in gs : TRUE IN g.num_nodes + SumNodes(gs \ {g})

\* C10: when some node is up, the printed hardware groups partition the up set: every
\* up node is in exactly one group exactly once, no group holds a node that is not up,
\* and the group counts add up to the number of up nodes.
C10_GroupsPartitionUpSet ==
    (report.printed /\ report.up_nodes # <<>>) =>
        /\ \A n \in Range(report.up_nodes) :
              /\ Cardinality({g \in report.groups : n \in Range(g.Node_ID)}) = 1
              /\ \A g \in report.groups : Occurrences(g.Node_ID, n) <= 1
        /\ \A g \in report.groups : Range(g.Node_ID) \subseteq Range(report.up_nodes)
        /\ SumNodes(report.groups) = Len(report.up_nodes)

(***************************************************************************)
(* Claims about format_node_ranges.                                        *)
(***************************************************************************)
RunStarts(S) == {a \in S : (a - 1) \notin S}
RunEnd(S, a) == CHOOSE b \in S : b >= a /\ (a..b) \subseteq S /\ (b + 1) \notin S

RECURSIVE RunTokens(_, _)
RunTokens(S, starts) ==
    IF starts = {} THEN <<>>
    ELSE LET a == SetMin(starts)
             b == RunEnd(S, a)
             tok == IF a = b THEN Str(a) ELSE Str(a) \o <<"-">> \o Str(b)
         IN <<tok>> \o RunTokens(S, starts \ {a})

ExpectedRanges(S) == Join(RunTokens(S, RunStarts(S)), <<",", " ">>)

\* C5: the result is the maximal runs of consecutive integers of the input, ascending,
\* joined by ", ", a run of one as the bare number and a longer run as "start-end";
\* the empty list gives "", one element gives no dash, {5,6,7,10} gives "5-7, 10".
C5_MaximalRuns ==
    rpc \in {"formatted", "parsed"} =>
        /\ range_str = ExpectedRanges(Range(node_ids))
        /\ (node_ids = <<>> => range_str = <<>>)
        /\ (Len(node_ids) = 1 => range_str = Str(node_ids[1]) /\ "-" \notin Range(range_str))
        /\ (Range(node_ids) = {5, 6, 7, 10} =>
                range_str = <<"5", "-", "7", ",", " ", "1", "0">>)

C5_Witness ==
    /\ rpc = "formatted"
    /\ node_ids = <<10, 5, 7, 6>>
    /\ range_str = <<"5", "-", "7", ",", " ", "1", "0">>

\* C8: reading the result back gives the set of the input, and formatting that set
\* again gives the same string; the empty set gives "".
C8_RoundTrip ==
    rpc = "parsed" =>
        /\ parsed_back = Range(node_ids)
        /\ range_again = range_str
        /\ (Range(node_ids) = {} => range_str = <<>>)

C8_Witness ==
    /\ rpc = "parsed"
    /\ parsed_back = {3, 9, 10}
    /\ range_str = <<"3", ",", " ", "9", "-", "1", "0">>
    /\ range_again = range_str

====
